---------------------------- MODULE Spec2Model ----------------------------
(***************************************************************************)
(* A model of the react-dice component library.                            *)
(*                                                                         *)
(*  - the Die component with the request-id guard (src/src/Die.tsx,        *)
(*    lines 316-460): specification Spec, and SpecLive, which adds that    *)
(*    the first effect runs and that every started load settles            *)
(*  - the Die component with face validation and the isMounted guard       *)
(*    (src/unnamed/part_003, lines 279-396): specification SpecMounted     *)
(*  - the validation block of that component as a function of the props    *)
(*    (src/unnamed/part_003, lines 303-345): specification SpecValidate    *)
(*  - useEffectiveBasePath / normalizeBasePath (src/src/DieContext.tsx):   *)
(*    specification SpecBasePath                                           *)
(*  - loadAsset of that component from its props to its import           *)
(*    (src/unnamed/part_003, lines 279-348): specification SpecPath        *)
(*  - DieProvider (src/src/DieContext.tsx, lines 45-69): specification     *)
(*    SpecProvider                                                         *)
(*  - useLoadingState (src/unnamed/part_002, lines 26-47): specification   *)
(*    SpecLoadingState                                                     *)
(*  - usePreloadAssets inside DieProvider, with the state updates queued   *)
(*    until the next render (src/src/DieContext.tsx, lines 45-69 and       *)
(*    128-172): specification SpecPreload                                  *)
(*                                                                         *)
(* Strings the code inspects character by character (die types, paths)     *)
(* are sequences of one-character strings.  Numbers that may be            *)
(* fractional are a pair (int, frac): the floor and the tenths.            *)
(***************************************************************************)
EXTENDS Integers, Sequences, FiniteSets, TLC

VARIABLES
    \* ---- validation block of part_003 (SpecValidate)
    vType,          \* the type prop
    vFace,          \* the face prop (may be undefined)
    vPc,            \* "props" before the block ran, "validated" after
    vError,         \* the Error thrown by the block, or Null
    \* ---- useEffectiveBasePath (SpecBasePath)
    pProp,          \* propBasePath argument
    pCtx,           \* the enclosing provider's config.basePath, or no provider
    pEnv,           \* process.env.REACT_APP_DICE_ASSET_PATH
    pPc,            \* "args" before the hook ran, "resolved" after
    pOut,           \* the hook's return value
    \* ---- Die with the request-id guard, Die.tsx lines 316-460 (Spec)
    props,          \* the props of the last render
    loadingState,   \* 'idle' | 'loading' | 'error' | 'success'
    error,          \* the error message, or Null
    svgContent,     \* the loaded SVG/image content
    requestIdRef,   \* requestIdRef.current
    requests,       \* per effect run (request id): where its loadAsset stands
    phase,          \* "initial" (rendered, effect not yet run) | "mounted"
                    \* | "unmounted"
    \* ---- Die with face validation and the isMounted guard, part_003
    \*      lines 279-396 (SpecMounted)
    dProps,         \* the props of the last render
    dLoadingState,  \* 'idle' | 'loading' | 'error' | 'success'
    dError,         \* the error message, or Null
    DiceComponent,  \* the loaded module's default export, or null
    effects,        \* per effect run: where its loadAsset stands, and its
                    \* isMounted flag
    dPhase,         \* "initial" | "mounted" | "unmounted"
    \* ---- loadAsset of part_003 from its props to its import (SpecPath)
    aProps,         \* type, face, format, theme, variant as passed
    aPc,            \* "props" before loadAsset ran, "computed" after
    aThrown,        \* the Error thrown before the import, or Null
    aPath,          \* the assetPath handed to import(), or NoAsset
    \* ---- DieProvider (SpecProvider)
    config,         \* the config state
    preloadedAssets,\* the preloadedAssets state
    lastCall,       \* the last updateConfig / addPreloadedAsset call
    \* ---- useLoadingState (SpecLoadingState)
    state,          \* the hook's state
    calls,          \* the hook call and the setter calls so far, oldest first
    \* ---- usePreloadAssets and the provider's pending updates (SpecPreload)
    uProvider,      \* whether the hook is called inside a DieProvider
    uPaths,         \* the paths argument of the last render
    uPc,            \* "initial" before the first effect, "mounted" after
    uLoads,         \* path -> "loading" | "loaded" | "failed", per image
    queue,          \* the state updates queued since the last render
    applied         \* what the last render processed: the paths added and
                    \* the merged updateConfig arguments

varsV == <<vType, vFace, vPc, vError>>
varsP == <<pProp, pCtx, pEnv, pPc, pOut>>
display == <<loadingState, svgContent, error>>
varsB == <<props, loadingState, error, svgContent, requestIdRef, requests,
           phase>>
displayD == <<dLoadingState, DiceComponent, dError>>
varsD == <<dProps, dLoadingState, dError, DiceComponent, effects, dPhase>>
varsA == <<aProps, aPc, aThrown, aPath>>
varsC == <<config, preloadedAssets, lastCall>>
varsH == <<state, calls>>
varsU == <<uProvider, uPaths, uPc, uLoads, queue, applied>>
vars == <<varsV, varsP, varsB, varsD, varsA, varsC, varsH, varsU>>

---------------------------------------------------------------------------
(* Values *)

\* Bounds of the face numbers drawn as inputs: -FaceBelow .. FaceAbove.
FaceBelow == 11
FaceAbove == 101

Num(i, f) == [kind |-> "number", int |-> i, frac |-> f, str |-> ""]
Str(s) == [kind |-> "string", int |-> 0, frac |-> 0, str |-> s]
UndefinedFace == [kind |-> "undefined", int |-> 0, frac |-> 0, str |-> ""]

\* number | NarrativeFace, or omitted (DieProps.face)
FaceInputs ==
    {Num(i, f) : i \in (0 - FaceBelow)..FaceAbove, f \in {0, 5}}
        \cup {Str("Success"), Str("Success-Advantage"), Str("")}
        \cup {UndefinedFace}

VALID_NUMERIC_DICE == {"d4", "d6", "d8", "d12", "d20", "d100"}

\* The narrative members of the DieType union.
NarrativeDieTypes ==
    {"boost", "proficiency", "ability", "setback", "challenge", "difficulty"}

\* The values passed as the type prop: the DieType union and values outside it.
TypeInputs ==
    VALID_NUMERIC_DICE \cup NarrativeDieTypes
        \cup {"narrative-boost", "invalid", "d10"}

\* The characters of a type value.
TypeChars(t) ==
    CASE t = "d4" -> <<"d", "4">>
      [] t = "d6" -> <<"d", "6">>
      [] t = "d8" -> <<"d", "8">>
      [] t = "d10" -> <<"d", "1", "0">>
      [] t = "d12" -> <<"d", "1", "2">>
      [] t = "d20" -> <<"d", "2", "0">>
      [] t = "d100" -> <<"d", "1", "0", "0">>
      [] t = "boost" -> <<"b", "o", "o", "s", "t">>
      [] t = "proficiency" ->
            <<"p", "r", "o", "f", "i", "c", "i", "e", "n", "c", "y">>
      [] t = "ability" -> <<"a", "b", "i", "l", "i", "t", "y">>
      [] t = "setback" -> <<"s", "e", "t", "b", "a", "c", "k">>
      [] t = "challenge" -> <<"c", "h", "a", "l", "l", "e", "n", "g", "e">>
      [] t = "difficulty" ->
            <<"d", "i", "f", "f", "i", "c", "u", "l", "t", "y">>
      [] t = "narrative-boost" ->
            <<"n", "a", "r", "r", "a", "t", "i", "v", "e", "-",
              "b", "o", "o", "s", "t">>
      [] t = "invalid" -> <<"i", "n", "v", "a", "l", "i", "d">>

\* String.prototype.startsWith on character sequences.
StartsWith(s, prefix) ==
    /\ Len(s) >= Len(prefix)
    /\ SubSeq(s, 1, Len(prefix)) = prefix

\* An Error's message: the fixed text and the values interpolated into it.
Msg(text, type, face, lo, hi) ==
    [text |-> text, type |-> type, face |-> face, lo |-> lo, hi |-> hi]

\* error = null
Null == Msg("null", "", UndefinedFace, 0, 0)

---------------------------------------------------------------------------
(* useEffectiveBasePath and normalizeBasePath, DieContext.tsx lines 86-126 *)

\* Bound of the path inputs: at most MaxPathLen characters after the prefix.
MaxPathLen == 3

\* An optional string: undefined, or the string's characters.
Undefined == [defined |-> FALSE, s |-> <<>>]
Some(s) == [defined |-> TRUE, s |-> s]

\* useDieConfig(): undefined outside a provider, else the provider's value,
\* whose config.basePath is optional.
NoProvider == [provider |-> FALSE, basePath |-> Undefined]
Provider(basePath) == [provider |-> TRUE, basePath |-> basePath]

RECURSIVE SeqsUpTo(_, _)
\* The strings over alphabet A of at most n characters.
SeqsUpTo(A, n) ==
    IF n = 0 THEN {<<>>}
    ELSE LET shorter == SeqsUpTo(A, n - 1)
         IN  shorter \cup {Append(s, c) : s \in shorter, c \in A}

HttpScheme == <<"h", "t", "t", "p", ":", "/", "/">>
HttpsScheme == <<"h", "t", "t", "p", "s", ":", "/", "/">>

\* Paths given as the basePath prop: relative and rooted paths, runs of
\* slashes, scheme-qualified and protocol-relative URLs, and a scheme with a
\* single slash.
PathInputs ==
    LET tails == SeqsUpTo({"/", "a"}, MaxPathLen)
    IN  tails
          \cup {HttpScheme \o t : t \in tails}
          \cup {HttpsScheme \o t : t \in tails}
          \cup {<<"h", "t", "t", "p", ":", "/">> \o t : t \in tails}

\* Paths given by the provider and by the environment.
SourcePaths(c) ==
    {<<>>, <<"/">>, <<c>>, <<"/", c, "/">>, <<"/", "/", c>>,
     HttpsScheme \o <<c, "/">>}

\* '/assets/@swrpg-online/art/dice'
DefaultBasePath ==
    <<"/", "a", "s", "s", "e", "t", "s", "/", "@", "s", "w", "r", "p", "g",
      "-", "o", "n", "l", "i", "n", "e", "/", "a", "r", "t", "/",
      "d", "i", "c", "e">>

RECURSIVE StripTrailingSlashes(_)
\* path.replace(/\/+$/, '')
StripTrailingSlashes(path) ==
    IF path # <<>> /\ path[Len(path)] = "/"
    THEN StripTrailingSlashes(SubSeq(path, 1, Len(path) - 1))
    ELSE path

\* /^https?:\/\//.test(s)
MatchesHttpScheme(s) == StartsWith(s, HttpScheme) \/ StartsWith(s, HttpsScheme)

normalizeBasePathNoStrip(path) ==
    IF path = <<>> THEN <<>>
    ELSE IF MatchesHttpScheme(path) \/ StartsWith(path, <<"/", "/">>)
    THEN path
    ELSE IF ~StartsWith(path, <<"/">>) THEN <<"/">> \o path
    ELSE path

normalizeBasePathNoUrlTest(path) ==
    LET normalized == StripTrailingSlashes(path)
    IN  IF normalized = <<>> THEN <<>>
        ELSE IF ~StartsWith(normalized, <<"/">>) THEN <<"/">> \o normalized
        ELSE normalized

normalizeBasePath(path) ==
    LET normalized == StripTrailingSlashes(path)
    IN  IF normalized = <<>> THEN <<>>
        ELSE IF MatchesHttpScheme(normalized)
                  \/ StartsWith(normalized, <<"/", "/">>)
        THEN normalized
        ELSE IF ~StartsWith(normalized, <<"/">>)
        THEN <<"/">> \o normalized
        ELSE normalized

TruthyDefinedOnly(x) == x.defined

\* a || b on optional strings: undefined and '' are falsy.
Truthy(x) == x.defined /\ x.s # <<>>
OrElse(a, b) == IF Truthy(a) THEN a ELSE b

\* context?.config.basePath
ContextBasePath(context) ==
    IF context.provider THEN context.basePath ELSE Undefined

useEffectiveBasePathEnvFirst(propBasePath, context, env) ==
    normalizeBasePath(
        OrElse(propBasePath,
               OrElse(env,
                      OrElse(ContextBasePath(context),
                             Some(DefaultBasePath)))).s)

useEffectiveBasePath(propBasePath, context, env) ==
    normalizeBasePath(
        OrElse(propBasePath,
               OrElse(ContextBasePath(context),
                      OrElse(env, Some(DefaultBasePath)))).s)

\* Idle values of the base path variables under the other specifications.
IdleBasePath ==
    /\ pProp = Undefined
    /\ pCtx = NoProvider
    /\ pEnv = Undefined
    /\ pPc = "args"
    /\ pOut = <<>>

---------------------------------------------------------------------------
(* The validation block of loadAsset, part_003 lines 303-345 *)

\* `face = 1` in the props destructuring.
FaceOrDefault(face) == IF face.kind = "undefined" THEN Num(1, 0) ELSE face

getMaxFaceD12Is10(type) ==
    CASE type = "d4" -> 4
      [] type = "d6" -> 6
      [] type = "d8" -> 8
      [] type = "d12" -> 10
      [] type = "d20" -> 20
      [] type = "d100" -> 90
      [] OTHER -> 1

getMaxFace(type) ==
    CASE type = "d4" -> 4
      [] type = "d6" -> 6
      [] type = "d8" -> 8
      [] type = "d12" -> 12
      [] type = "d20" -> 20
      [] type = "d100" -> 90
      [] OTHER -> 1

\* face < n and face > n for a number face and an integer n.
NumLt(face, n) == face.int < n
NumGt(face, n) == face.int > n \/ (face.int = n /\ face.frac > 0)
\* face % 10 !== 0
NotMultipleOf10(face) == face.int % 10 # 0 \/ face.frac # 0

IsInvalidD100FaceNoStep(face, maxFace) ==
    NumLt(face, 0) \/ NumGt(face, maxFace)

\* face < 0 || face > maxFace || face % 10 !== 0
IsInvalidD100Face(face, maxFace) ==
    NumLt(face, 0) \/ NumGt(face, maxFace) \/ NotMultipleOf10(face)

\* face < 1 || face > maxFace
IsInvalidFace(face, maxFace) ==
    NumLt(face, 1) \/ NumGt(face, maxFace)

IsNumericDie(type) == type \in VALID_NUMERIC_DICE

\* !(!isNumericDie && !type.startsWith('narrative-'))
IsKnownDieType(type) ==
    IsNumericDie(type)
        \/ StartsWith(TypeChars(type),
                      <<"n", "a", "r", "r", "a", "t", "i", "v", "e", "-">>)

\* The Error the block throws for (type, face), or Null when it reaches the
\* import.
ValidateFace(type, face) ==
    IF ~IsKnownDieType(type)
    THEN Msg("Invalid die type", type, UndefinedFace, 0, 0)
    ELSE IF IsNumericDie(type)
    THEN IF face.kind # "number"
         THEN Msg("Numeric dice require a number for the face value",
                  "", face, 0, 0)
         ELSE IF type = "d100"
         THEN IF IsInvalidD100Face(face, getMaxFace(type))
              THEN Msg("Invalid face for", "d100", face, 0, 90)
              ELSE Null
         ELSE IF IsInvalidFace(face, getMaxFace(type))
              THEN Msg("Invalid face for", type, face, 1, getMaxFace(type))
              ELSE Null
    ELSE IF face.kind # "string"
         THEN Msg("Narrative dice require a string for the face value",
                  "", face, 0, 0)
         ELSE Null

\* Idle values of the validation variables under the other specifications.
IdleValidate ==
    /\ vType = "d6"
    /\ vFace = UndefinedFace
    /\ vPc = "props"
    /\ vError = Null

\* No module loaded (DiceComponent null), no path computed.
NoAsset ==
    [dir |-> "", subdir |-> <<>>, name |-> <<>>, face |-> <<>>,
     first |-> <<>>, second |-> <<>>, faceStr |-> "", format |-> ""]

\* Theme props, by their characters.
WhiteArabic == <<"w", "h", "i", "t", "e", "-", "a", "r", "a", "b", "i", "c">>
Light == <<"l", "i", "g", "h", "t">>

\* The isMounted Die component, not rendered.
IdleMounted ==
    /\ dProps = [type |-> "d4", face |-> UndefinedFace,
                 format |-> "svg", theme |-> WhiteArabic,
                 variant |-> "standard"]
    /\ dLoadingState = "idle"
    /\ dError = Null
    /\ DiceComponent = NoAsset
    /\ effects = <<>>
    /\ dPhase = "initial"

\* An optional prop that was omitted.
Omitted == "undefined"

\* loadAsset not called.
IdlePath ==
    /\ aProps = [type |-> "d6", face |-> UndefinedFace, format |-> "svg",
                 theme |-> Undefined, variant |-> Omitted]
    /\ aPc = "props"
    /\ aThrown = Null
    /\ aPath = NoAsset

\* A DieConfig: the keys that are set, with their values.
EmptyConfig == [k \in {} |-> ""]

NoCall == [op |-> "none", config |-> EmptyConfig, path |-> ""]

\* No DieProvider rendered.
IdleProvider ==
    /\ config = EmptyConfig
    /\ preloadedAssets = {}
    /\ lastCall = NoCall

\* useLoadingState not called.
IdleLoadingState ==
    /\ state = "loading"
    /\ calls = <<>>

\* No image load started.
NoLoads == [p \in {} |-> ""]

\* A render that had no queued update to process.
NoUpdates == [paths |-> {}, config |-> EmptyConfig]

\* usePreloadAssets not called, no update queued.
IdlePreload ==
    /\ uProvider = FALSE
    /\ uPaths = {}
    /\ uPc = "initial"
    /\ uLoads = NoLoads
    /\ queue = <<>>
    /\ applied = NoUpdates

---------------------------------------------------------------------------
(* The Die component with the request-id guard, Die.tsx lines 316-460 *)

\* Bound on the number of effect runs of one component instance.
MaxRequests == 3

DEFAULT_THEME == "white-arabic"
DEFAULT_FORMAT == "svg"
DEFAULT_D4_VARIANT == "standard"

\* The dependency list of the effect without the presentational className
\* and style: [type, format, theme, variant].
EffectDeps == {"type", "format", "theme", "variant"}

\* The props a render passes.  face is declared by DieProps and passed by
\* callers; this component does not read it.
DieProps ==
    [type : {"d4", "boost"},
     face : {Num(1, 0), Num(7, 0)},
     format : {"svg", "png"},
     theme : {DEFAULT_THEME, "black-arabic"},
     variant : {DEFAULT_D4_VARIANT, "apex"}]

\* The props of the first render: theme and variant omitted.
InitialDieProps ==
    {p \in DieProps : p.theme = DEFAULT_THEME /\ p.variant = DEFAULT_D4_VARIANT}

\* The props that differ between two renders.
ChangedProps(p, q) == {f \in DOMAIN p : p[f] # q[f]}

getD4Config(variant) ==
    CASE variant = "apex" -> "D4Apex-01-Arabic"
      [] variant = "base" -> "D4Base-01-Arabic"
      [] OTHER -> "D4-01-Arabic"

NoPath == <<>>

\* getAssetPath for a valid type: the pieces of the template string.
getAssetPath(p) ==
    LET diceType == IF IsNumericDie(p.type) THEN "numeric" ELSE "narrative"
    IN  IF p.type = "d4"
        THEN <<"/dice/", diceType, "/", getD4Config(p.variant), "-", p.theme,
               ".", p.format>>
        ELSE <<"/dice/", diceType, "/", p.type, "-", p.theme, ".", p.format>>

\* svgContent: '', the processed markup of an asset, or an asset's URL.
EmptyContent == [kind |-> "empty", asset |-> NoPath]
Markup(path) == [kind |-> "markup", asset |-> path]
Url(path) == [kind |-> "url", asset |-> path]

\* What a rejected import or fetch carries: an Error's message, or a value
\* that is no Error ('Unknown error occurred').
FailureTexts == {"Cannot find module", "Unknown error occurred"}

IsStaleNever(id, current) == FALSE

\* currentRequestId !== requestIdRef.current
IsStale(id, current) == id # current

CatchGuardNever(aborted, id, current) == FALSE

\* !abortController.signal.aborted && currentRequestId === requestIdRef.current
CatchGuard(aborted, id, current) == ~aborted /\ id = current

\* The request record of an effect run whose getAssetPath threw, and of one
\* that reached the import.  attempts counts the import() calls it made.
ThrewRequest(p) ==
    [pc |-> "threw", aborted |-> FALSE, path |-> NoPath, format |-> p.format,
     attempts |-> 0]
ImportRequest(p) ==
    [pc |-> "import", aborted |-> FALSE, path |-> getAssetPath(p),
     format |-> p.format, attempts |-> 1]

\* The effect cleanup of the previous run: abortController.abort().
Cleanup(reqs, id) ==
    IF id \in DOMAIN reqs THEN [reqs EXCEPT ![id].aborted = TRUE] ELSE reqs

\* The effect body for props p: a new request id, then loadAsset up to its
\* first await (or to the end of its catch block when getAssetPath throws).
RunEffect(p) ==
    LET id == requestIdRef + 1
        cleaned == Cleanup(requests, requestIdRef)
    IN  /\ requestIdRef' = id
        /\ IF ~IsKnownDieType(p.type)
           THEN /\ requests' = cleaned @@ (id :> ThrewRequest(p))
                /\ IF CatchGuard(FALSE, id, id)
                   THEN /\ error' = Msg("Invalid die type", p.type,
                                         UndefinedFace, 0, 0)
                        /\ loadingState' = "error"
                        /\ svgContent' = EmptyContent
                   ELSE /\ error' = Null
                        /\ loadingState' = "loading"
                        /\ UNCHANGED svgContent
           ELSE /\ requests' = cleaned @@ (id :> ImportRequest(p))
                /\ loadingState' = "loading"
                /\ error' = Null
                /\ UNCHANGED svgContent

ThrowKeepsContent(id, msg) ==
    IF CatchGuard(requests[id].aborted, id, requestIdRef)
    THEN /\ error' = msg
         /\ loadingState' = "error"
         /\ UNCHANGED svgContent
         /\ requests' = [requests EXCEPT ![id].pc = "failed"]
    ELSE /\ requests' = [requests EXCEPT ![id].pc = "suppressed"]
         /\ UNCHANGED display

\* A throw inside loadAsset's try block for request id, with message msg.
Throw(id, msg) ==
    IF CatchGuard(requests[id].aborted, id, requestIdRef)
    THEN /\ error' = msg
         /\ loadingState' = "error"
         /\ svgContent' = EmptyContent
         /\ requests' = [requests EXCEPT ![id].pc = "failed"]
    ELSE /\ requests' = [requests EXCEPT ![id].pc = "suppressed"]
         /\ UNCHANGED display

FailureMsg(text) == Msg(text, "", UndefinedFace, 0, 0)

IdleDie ==
    /\ props = [type |-> "d6", face |-> Num(1, 0), format |-> DEFAULT_FORMAT,
                theme |-> DEFAULT_THEME, variant |-> DEFAULT_D4_VARIANT]
    /\ loadingState = "idle"
    /\ error = Null
    /\ svgContent = EmptyContent
    /\ requestIdRef = 0
    /\ requests = <<>>
    /\ phase = "initial"

\* After the first render: the useState and useRef initial values.
Init ==
    /\ props \in InitialDieProps
    /\ loadingState = "idle"
    /\ error = Null
    /\ svgContent = EmptyContent
    /\ requestIdRef = 0
    /\ requests = <<>>
    /\ phase = "initial"
    /\ IdleValidate
    /\ IdleBasePath
    /\ IdleMounted
    /\ IdlePath
    /\ IdleProvider
    /\ IdleLoadingState
    /\ IdlePreload

\* The effect runs after the first render.
Mount ==
    /\ phase = "initial"
    /\ phase' = "mounted"
    /\ RunEffect(props)
    /\ UNCHANGED props
    /\ UNCHANGED <<varsV, varsP, varsD, varsA, varsC, varsH, varsU>>

\* A re-render that changes one prop of the dependency list: cleanup of the
\* previous effect, then the effect again.
ChangeDep ==
    /\ phase = "mounted"
    /\ requestIdRef < MaxRequests
    /\ \E p \in DieProps :
          /\ Cardinality(ChangedProps(props, p)) = 1
          /\ ChangedProps(props, p) \subseteq EffectDeps
          /\ props' = p
          /\ RunEffect(p)
    /\ UNCHANGED phase
    /\ UNCHANGED <<varsV, varsP, varsD, varsA, varsC, varsH, varsU>>

\* A re-render that changes the face prop: no dependency changed, no effect.
ChangeFace ==
    /\ phase = "mounted"
    /\ \E p \in DieProps :
          /\ ChangedProps(props, p) = {"face"}
          /\ props' = p
    /\ UNCHANGED <<loadingState, error, svgContent, requestIdRef, requests,
                   phase>>
    /\ UNCHANGED <<varsV, varsP, varsD, varsA, varsC, varsH, varsU>>

\* import() of request id resolves: the first request-id check, then the
\* fetch (svg) or the success updates (png).
ImportResolve(id) ==
    /\ requests[id].pc = "import"
    /\ IF IsStale(id, requestIdRef)
       THEN /\ requests' = [requests EXCEPT ![id].pc = "stale"]
            /\ UNCHANGED display
       ELSE IF requests[id].format = "svg"
       THEN IF requests[id].aborted
            THEN \* fetch with an aborted signal rejects with an AbortError
                 Throw(id, FailureMsg("The operation was aborted"))
            ELSE /\ requests' = [requests EXCEPT ![id].pc = "fetch"]
                 /\ UNCHANGED display
       ELSE /\ svgContent' = Url(requests[id].path)
            /\ loadingState' = "success"
            /\ UNCHANGED error
            /\ requests' = [requests EXCEPT ![id].pc = "applied"]
    /\ UNCHANGED <<props, requestIdRef, phase>>
    /\ UNCHANGED <<varsV, varsP, varsD, varsA, varsC, varsH, varsU>>

\* import() of request id rejects.
ImportReject(id) ==
    /\ requests[id].pc = "import"
    /\ \E text \in FailureTexts : Throw(id, FailureMsg(text))
    /\ UNCHANGED <<props, requestIdRef, phase>>
    /\ UNCHANGED <<varsV, varsP, varsD, varsA, varsC, varsH, varsU>>

\* fetch() of request id resolves with a response, ok or not (it may have
\* resolved before its signal was aborted).
FetchResolve(id) ==
    /\ requests[id].pc = "fetch"
    /\ \E ok \in BOOLEAN :
          IF ok
          THEN /\ requests' = [requests EXCEPT ![id].pc = "text"]
               /\ UNCHANGED display
          ELSE Throw(id, FailureMsg("Failed to fetch SVG"))
    /\ UNCHANGED <<props, requestIdRef, phase>>
    /\ UNCHANGED <<varsV, varsP, varsD, varsA, varsC, varsH, varsU>>

\* fetch() of request id rejects: a network failure, or its signal aborted.
FetchReject(id) ==
    /\ requests[id].pc = "fetch"
    /\ \E text \in FailureTexts : Throw(id, FailureMsg(text))
    /\ UNCHANGED <<props, requestIdRef, phase>>
    /\ UNCHANGED <<varsV, varsP, varsD, varsA, varsC, varsH, varsU>>

\* response.text() of request id resolves: the second request-id check, then
\* the success updates.
TextResolve(id) ==
    /\ requests[id].pc = "text"
    /\ IF IsStale(id, requestIdRef)
       THEN /\ requests' = [requests EXCEPT ![id].pc = "stale"]
            /\ UNCHANGED display
       ELSE /\ svgContent' = Markup(requests[id].path)
            /\ loadingState' = "success"
            /\ UNCHANGED error
            /\ requests' = [requests EXCEPT ![id].pc = "applied"]
    /\ UNCHANGED <<props, requestIdRef, phase>>
    /\ UNCHANGED <<varsV, varsP, varsD, varsA, varsC, varsH, varsU>>

\* response.text() of request id rejects: the body failed, or was aborted.
TextReject(id) ==
    /\ requests[id].pc = "text"
    /\ \E text \in FailureTexts : Throw(id, FailureMsg(text))
    /\ UNCHANGED <<props, requestIdRef, phase>>
    /\ UNCHANGED <<varsV, varsP, varsD, varsA, varsC, varsH, varsU>>

\* The component is removed: the cleanup of the last effect run.
Unmount ==
    /\ phase = "mounted"
    /\ phase' = "unmounted"
    /\ requests' = Cleanup(requests, requestIdRef)
    /\ UNCHANGED <<props, loadingState, error, svgContent, requestIdRef>>
    /\ UNCHANGED <<varsV, varsP, varsD, varsA, varsC, varsH, varsU>>

\* What the component returns for the current state: the alert with the
\* error message, the status placeholder, the div holding the SVG markup,
\* or the img.
Render ==
    IF loadingState = "error"
    THEN [element |-> "alert", message |-> error, content |-> EmptyContent]
    ELSE IF loadingState = "loading" \/ loadingState = "idle"
    THEN [element |-> "status", message |-> Null, content |-> EmptyContent]
    ELSE IF props.format = "svg"
    THEN [element |-> "svg", message |-> Null, content |-> svgContent]
    ELSE [element |-> "img", message |-> Null, content |-> svgContent]

Next ==
    \/ Mount
    \/ ChangeDep
    \/ ChangeFace
    \/ \E id \in DOMAIN requests : ImportResolve(id)
    \/ \E id \in DOMAIN requests : ImportReject(id)
    \/ \E id \in DOMAIN requests : FetchResolve(id)
    \/ \E id \in DOMAIN requests : FetchReject(id)
    \/ \E id \in DOMAIN requests : TextResolve(id)
    \/ \E id \in DOMAIN requests : TextReject(id)
    \/ Unmount

Spec == Init /\ [][Next]_vars

\* A load that was started settles: some pending promise of some request
\* (import, fetch or response.text) resolves or rejects and its continuation
\* runs.
Settle ==
    \E id \in DOMAIN requests :
        \/ ImportResolve(id)
        \/ ImportReject(id)
        \/ FetchResolve(id)
        \/ FetchReject(id)
        \/ TextResolve(id)
        \/ TextReject(id)

\* The lifecycle under the scheduling the runtime gives: the effect of the
\* first render is run after the commit, and no started load stays pending
\* for ever.
SpecLive == Init /\ [][Next]_vars /\ WF_vars(Mount) /\ WF_vars(Settle)

---------------------------------------------------------------------------
(* The asset path of part_003 lines 196-251 and 327-345 *)

LowerCase ==
    <<"a", "b", "c", "d", "e", "f", "g", "h", "i", "j", "k", "l", "m",
      "n", "o", "p", "q", "r", "s", "t", "u", "v", "w", "x", "y", "z">>
UpperCase ==
    <<"A", "B", "C", "D", "E", "F", "G", "H", "I", "J", "K", "L", "M",
      "N", "O", "P", "Q", "R", "S", "T", "U", "V", "W", "X", "Y", "Z">>

\* c.toUpperCase() for one character.
ToUpper(c) ==
    IF \E i \in DOMAIN LowerCase : LowerCase[i] = c
    THEN UpperCase[CHOOSE i \in DOMAIN LowerCase : LowerCase[i] = c]
    ELSE c

\* s.charAt(0).toUpperCase() + s.slice(1)
Capitalize(s) == IF s = <<>> THEN <<>> ELSE <<ToUpper(s[1])>> \o Tail(s)

\* The index of the first c in s, or 0.
IndexOf(s, c) ==
    IF \E i \in DOMAIN s : s[i] = c
    THEN CHOOSE i \in DOMAIN s : s[i] = c /\ \A j \in 1..(i - 1) : s[j] # c
    ELSE 0

RECURSIVE Split(_, _)
\* s.split(sep) for a one-character separator.
Split(s, sep) ==
    LET i == IndexOf(s, sep)
    IN  IF i = 0 THEN <<s>>
        ELSE <<SubSeq(s, 1, i - 1)>> \o Split(SubSeq(s, i + 1, Len(s)), sep)

\* s.replace(c, d): the first c only.
ReplaceFirst(s, c, d) ==
    LET i == IndexOf(s, c)
    IN  IF i = 0 THEN s ELSE [s EXCEPT ![i] = d]

Digit(n) == <<"0", "1", "2", "3", "4", "5", "6", "7", "8", "9">>[n + 1]

RECURSIVE Digits(_)
\* n.toString() for an integer n >= 0.
Digits(n) == IF n < 10 THEN <<Digit(n)>> ELSE Digits(n \div 10) \o <<Digit(n % 10)>>

\* face.toString() for a number face >= 0.
NumToString(face) ==
    IF face.frac = 0 THEN Digits(face.int)
    ELSE Digits(face.int) \o <<".">> \o Digits(face.frac)

\* s.padStart(2, '0')
PadStart2(s) == IF Len(s) < 2 THEN <<"0">> \o s ELSE s

formatFaceNumber(face) == PadStart2(NumToString(face))

\* D4Variant to file name prefix.
getD4ConfigName(variant) ==
    CASE variant = "apex" -> <<"D", "4", "A", "p", "e", "x">>
      [] variant = "base" -> <<"D", "4", "B", "a", "s", "e">>
      [] OTHER -> <<"D", "4">>

\* parseTheme reads script.charAt: a TypeError when the theme has no '-'.
ParseThemeThrows(theme) == Len(Split(theme, "-")) < 2

parseTheme(theme) ==
    LET parts == Split(theme, "-")
    IN  [style |-> Capitalize(parts[1]), script |-> Capitalize(parts[2])]

\* Only the default branch is reached: the named narrative types do not pass
\* the die type check.
getDieTypeName(type) ==
    CASE type = "boost" -> <<"B", "o", "o", "s", "t">>
      [] type = "proficiency" ->
            <<"P", "r", "o", "f", "i", "c", "i", "e", "n", "c", "y">>
      [] type = "ability" -> <<"A", "b", "i", "l", "i", "t", "y">>
      [] type = "setback" -> <<"S", "e", "t", "b", "a", "c", "k">>
      [] type = "challenge" -> <<"C", "h", "a", "l", "l", "e", "n", "g", "e">>
      [] type = "difficulty" ->
            <<"D", "i", "f", "f", "i", "c", "u", "l", "t", "y">>
      [] OTHER -> ReplaceFirst(TypeChars(type), "d", "D")

\* The template strings of lines 331, 334 and 344, by their parts:
\*   numeric:   {dir}{subdir}{name}-{face}-{first}-{second}.{format}
\*              with dir '@swrpg-online/art/dice/numeric/', subdir '{theme}/'
\*   narrative: {dir}{name}-{faceStr}.{format}
\*              with dir '@swrpg-online/art/dice/narrative/', no subdir
assetPath(p, face) ==
    IF IsNumericDie(p.type)
    THEN [dir |-> "@swrpg-online/art/dice/numeric/",
          subdir |-> p.theme \o <<"/">>,
          name |-> IF p.type = "d4" THEN getD4ConfigName(p.variant)
                   ELSE ReplaceFirst(TypeChars(p.type), "d", "D"),
          face |-> formatFaceNumber(face),
          first |-> parseTheme(p.theme).style,
          second |-> parseTheme(p.theme).script,
          faceStr |-> "",
          format |-> p.format]
    ELSE [dir |-> "@swrpg-online/art/dice/narrative/",
          subdir |-> <<>>,
          name |-> getDieTypeName(p.type),
          face |-> <<>>,
          first |-> <<>>,
          second |-> <<>>,
          faceStr |-> face.str,
          format |-> p.format]

---------------------------------------------------------------------------
(* The Die component with face validation and the isMounted guard,
   part_003 lines 279-396 *)

\* Bound on the number of effect runs of one component instance.
MaxEffects == 3

\* The props a render passes; face may be omitted.
MountedDieProps ==
    [type : {"d4", "d100", "boost", "narrative-boost"},
     face : {UndefinedFace, Num(50, 0), Str("Success")},
     format : {"svg", "png"},
     theme : {WhiteArabic, Light},
     variant : {DEFAULT_D4_VARIANT, "apex"}]

\* The props of the first render: theme and variant omitted.
InitialMountedDieProps ==
    {p \in MountedDieProps :
        p.theme = WhiteArabic /\ p.variant = DEFAULT_D4_VARIANT}

\* The dependency list of the effect: [type, face, format, theme, variant].
MountedEffectDeps == {"type", "face", "format", "theme", "variant"}

\* The Error loadAsset throws for props p before its import, or Null: the
\* validation block, then parseTheme for a numeric die.
ThrownBeforeImport(p) ==
    LET invalid == ValidateFace(p.type, FaceOrDefault(p.face))
    IN  IF invalid # Null THEN invalid
        ELSE IF IsNumericDie(p.type) /\ ParseThemeThrows(p.theme)
        THEN Msg("Cannot read properties of undefined", "", UndefinedFace, 0, 0)
        ELSE Null

\* The effect cleanup: isMounted = false in the closure of effect run n.
CleanupMounted(effs, n) ==
    IF n \in DOMAIN effs THEN [effs EXCEPT ![n].isMounted = FALSE] ELSE effs

ReachesImportAlways(p) == TRUE

\* Whether loadAsset for props p reaches its import.
ReachesImport(p) == ThrownBeforeImport(p) = Null

\* The effect body for props p: loadAsset up to its await, or through its
\* catch block when it throws before.
RunMountedEffect(p) ==
    LET n == Len(effects) + 1
        cleaned == CleanupMounted(effects, Len(effects))
    IN  IF ReachesImport(p)
        THEN /\ effects' = Append(cleaned,
                    [pc |-> "import", isMounted |-> TRUE,
                     \* the template strings are evaluated after the checks
                     path |-> IF ThrownBeforeImport(p) = Null
                              THEN assetPath(p, FaceOrDefault(p.face))
                              ELSE NoAsset,
                     props |-> p, attempts |-> 1])
             /\ dLoadingState' = "loading"
             /\ dError' = Null
             /\ UNCHANGED DiceComponent
        ELSE /\ effects' = Append(cleaned,
                    [pc |-> "threw", isMounted |-> TRUE, path |-> NoAsset,
                     props |-> p, attempts |-> 0])
             /\ dError' = ThrownBeforeImport(p)
             /\ dLoadingState' = "error"
             /\ DiceComponent' = NoAsset

\* After the first render: the useState initial values.
InitMounted ==
    /\ dProps \in InitialMountedDieProps
    /\ dLoadingState = "idle"
    /\ dError = Null
    /\ DiceComponent = NoAsset
    /\ effects = <<>>
    /\ dPhase = "initial"
    /\ IdleValidate
    /\ IdleBasePath
    /\ IdleDie
    /\ IdlePath
    /\ IdleProvider
    /\ IdleLoadingState
    /\ IdlePreload

\* The effect runs after the first render.
MountD ==
    /\ dPhase = "initial"
    /\ dPhase' = "mounted"
    /\ RunMountedEffect(dProps)
    /\ UNCHANGED dProps
    /\ UNCHANGED <<varsV, varsP, varsB, varsA, varsC, varsH, varsU>>

\* A re-render that changes one prop: every prop is in the dependency list,
\* so the cleanup of the previous effect runs, then the effect again.
ChangeDepD ==
    /\ dPhase = "mounted"
    /\ Len(effects) < MaxEffects
    /\ \E p \in MountedDieProps :
          /\ Cardinality(ChangedProps(dProps, p)) = 1
          /\ ChangedProps(dProps, p) \subseteq MountedEffectDeps
          /\ dProps' = p
          /\ RunMountedEffect(p)
    /\ UNCHANGED dPhase
    /\ UNCHANGED <<varsV, varsP, varsB, varsA, varsC, varsH, varsU>>

ImportResolveDNoComponent(n) ==
    /\ effects[n].pc = "import"
    /\ IF effects[n].isMounted
       THEN /\ dLoadingState' = "success"
            /\ UNCHANGED <<dError, DiceComponent>>
            /\ effects' = [effects EXCEPT ![n].pc = "applied"]
       ELSE /\ effects' = [effects EXCEPT ![n].pc = "ignored"]
            /\ UNCHANGED displayD
    /\ UNCHANGED <<dProps, dPhase>>
    /\ UNCHANGED <<varsV, varsP, varsB, varsA, varsC, varsH, varsU>>

\* import() of effect run n resolves.
ImportResolveD(n) ==
    /\ effects[n].pc = "import"
    /\ IF effects[n].isMounted
       THEN /\ DiceComponent' = effects[n].path
            /\ dLoadingState' = "success"
            /\ UNCHANGED dError
            /\ effects' = [effects EXCEPT ![n].pc = "applied"]
       ELSE /\ effects' = [effects EXCEPT ![n].pc = "ignored"]
            /\ UNCHANGED displayD
    /\ UNCHANGED <<dProps, dPhase>>
    /\ UNCHANGED <<varsV, varsP, varsB, varsA, varsC, varsH, varsU>>

\* import() of effect run n rejects.
ImportRejectD(n) ==
    /\ effects[n].pc = "import"
    /\ IF effects[n].isMounted
       THEN /\ \E text \in FailureTexts : dError' = FailureMsg(text)
            /\ dLoadingState' = "error"
            /\ DiceComponent' = NoAsset
            /\ effects' = [effects EXCEPT ![n].pc = "failed"]
       ELSE /\ effects' = [effects EXCEPT ![n].pc = "ignored"]
            /\ UNCHANGED displayD
    /\ UNCHANGED <<dProps, dPhase>>
    /\ UNCHANGED <<varsV, varsP, varsB, varsA, varsC, varsH, varsU>>

\* The component is removed: the cleanup of the last effect run.
UnmountD ==
    /\ dPhase = "mounted"
    /\ dPhase' = "unmounted"
    /\ effects' = CleanupMounted(effects, Len(effects))
    /\ UNCHANGED <<dProps, dLoadingState, dError, DiceComponent>>
    /\ UNCHANGED <<varsV, varsP, varsB, varsA, varsC, varsH, varsU>>

\* What the component returns for the current state: the alert with the
\* error message, the status placeholder, the loaded component, or null.
RenderMounted ==
    IF dLoadingState = "error"
    THEN [element |-> "alert", message |-> dError, component |-> NoAsset]
    ELSE IF dLoadingState = "loading" \/ dLoadingState = "idle"
    THEN [element |-> "status", message |-> Null, component |-> NoAsset]
    ELSE IF DiceComponent # NoAsset
    THEN [element |-> "image", message |-> Null, component |-> DiceComponent]
    ELSE [element |-> "null", message |-> Null, component |-> NoAsset]

NextMounted ==
    \/ MountD
    \/ ChangeDepD
    \/ \E n \in DOMAIN effects : ImportResolveD(n)
    \/ \E n \in DOMAIN effects : ImportRejectD(n)
    \/ UnmountD

SpecMounted == InitMounted /\ [][NextMounted]_vars

---------------------------------------------------------------------------
(* loadAsset of part_003 from its props to its import, lines 279-348 *)

BlackRoman == <<"b", "l", "a", "c", "k", "-", "r", "o", "m", "a", "n">>

\* The theme prop: well-formed themes, a single segment, the empty string,
\* a blank, a leading and a trailing hyphen, three segments; or omitted.
ThemeInputs ==
    {Undefined}
        \cup {Some(t) : t \in {WhiteArabic, BlackRoman, Light, <<>>, <<" ">>,
                               <<"-", "a">>, <<"a", "-">>,
                               <<"a", "-", "b", "-", "c">>}}

\* The variant prop: a D4Variant, or omitted.
VariantInputs == {Omitted, "standard", "apex", "base"}

\* The face prop: omitted, numbers of one and two digits, a number out of
\* every range, a single and a compound narrative face.
PathFaceInputs ==
    {UndefinedFace, Num(1, 0), Num(7, 0), Num(20, 0), Num(90, 0),
     Num(100, 0), Str("Success"), Str("Success-Advantage")}

PathProps ==
    [type : TypeInputs, face : PathFaceInputs, format : {"svg", "png"},
     theme : ThemeInputs, variant : VariantInputs]

\* The destructuring defaults: face = 1, theme = DEFAULT_THEME,
\* variant = DEFAULT_D4_VARIANT.
WithDefaults(p) ==
    [type |-> p.type,
     face |-> FaceOrDefault(p.face),
     format |-> p.format,
     theme |-> IF p.theme.defined THEN p.theme.s ELSE WhiteArabic,
     variant |-> IF p.variant = Omitted THEN DEFAULT_D4_VARIANT
                 ELSE p.variant]

InitPath ==
    /\ aProps \in PathProps
    /\ aPc = "props"
    /\ aThrown = Null
    /\ aPath = NoAsset
    /\ IdleValidate
    /\ IdleBasePath
    /\ IdleDie
    /\ IdleMounted
    /\ IdleProvider
    /\ IdleLoadingState
    /\ IdlePreload

\* loadAsset runs from its first statement to the import, or to the throw.
ComputePath ==
    /\ aPc = "props"
    /\ aPc' = "computed"
    /\ LET p == WithDefaults(aProps)
       IN  /\ aThrown' = ThrownBeforeImport(p)
           /\ aPath' = IF ReachesImport(p) THEN assetPath(p, p.face)
                       ELSE NoAsset
    /\ UNCHANGED aProps
    /\ UNCHANGED <<varsV, varsP, varsB, varsD, varsC, varsH, varsU>>

NextPath == ComputePath

SpecPath == InitPath /\ [][NextPath]_vars

---------------------------------------------------------------------------
(* DieProvider, DieContext.tsx lines 45-69 *)

\* The keys of DieConfig, all optional.
ConfigKeys == {"basePath", "preloadAssets", "cacheDuration"}

\* Values of each key, written as in the source text.
ConfigValues(k) ==
    CASE k = "basePath" -> {"/a", "https://cdn.example.com/dice"}
      [] k = "preloadAssets" -> {"true", "false"}
      [] k = "cacheDuration" -> {"0", "3600000"}

\* Every DieConfig and Partial<DieConfig>: a subset of the keys, set.
Configs ==
    UNION {{c \in [K -> UNION {ConfigValues(k) : k \in ConfigKeys}] :
                \A k \in K : c[k] \in ConfigValues(k)} :
           K \in SUBSET ConfigKeys}

\* The paths components hand to addPreloadedAsset.
PreloadPaths == {"/dice/d6.svg", "/dice/d8.svg", "/dice/boost.png"}

ReplaceConfig(prev, newConfig) == newConfig

\* { ...prev, ...newConfig }
MergeConfig(prev, newConfig) ==
    [k \in DOMAIN prev \cup DOMAIN newConfig |->
        IF k \in DOMAIN newConfig THEN newConfig[k] ELSE prev[k]]

SetOf(prev, path) == {path}

\* new Set(prev).add(path)
SetAdd(prev, path) == prev \cup {path}

\* The provider is rendered with its config prop (default {}).
InitProvider ==
    /\ config \in Configs
    /\ preloadedAssets = {}
    /\ lastCall = NoCall
    /\ IdleValidate
    /\ IdleBasePath
    /\ IdleDie
    /\ IdleMounted
    /\ IdlePath
    /\ IdleLoadingState
    /\ IdlePreload

\* Any consumer calls updateConfig(newConfig).
updateConfig ==
    /\ \E newConfig \in Configs :
          /\ config' = MergeConfig(config, newConfig)
          /\ lastCall' = [op |-> "updateConfig", config |-> newConfig,
                          path |-> ""]
    /\ UNCHANGED preloadedAssets
    /\ UNCHANGED <<varsV, varsP, varsB, varsD, varsA, varsH, varsU>>

\* Any consumer calls addPreloadedAsset(path).
addPreloadedAsset ==
    /\ \E path \in PreloadPaths :
          /\ preloadedAssets' = SetAdd(preloadedAssets, path)
          /\ lastCall' = [op |-> "addPreloadedAsset", config |-> EmptyConfig,
                          path |-> path]
    /\ UNCHANGED config
    /\ UNCHANGED <<varsV, varsP, varsB, varsD, varsA, varsH, varsU>>

\* The parent renders the provider again, with any config prop: useState
\* ignores its argument after the first render.
RenderProvider ==
    /\ \E initialConfig \in Configs :
          lastCall' = [op |-> "render", config |-> initialConfig, path |-> ""]
    /\ UNCHANGED <<config, preloadedAssets>>
    /\ UNCHANGED <<varsV, varsP, varsB, varsD, varsA, varsH, varsU>>

NextProvider ==
    \/ updateConfig
    \/ addPreloadedAsset
    \/ RenderProvider

SpecProvider == InitProvider /\ [][NextProvider]_vars

---------------------------------------------------------------------------
(* usePreloadAssets inside DieProvider, DieContext.tsx lines 45-69, 128-172 *)

\* Bound on the updateConfig calls queued between two renders.
MaxQueue == 2

\* The paths arguments: the list is taken as the set of its paths.
HookPaths == SUBSET {"/dice/d6.svg", "/dice/d8.svg"}

\* The Partial<DieConfig> arguments of the queued updateConfig calls: one
\* key each.
KeyConfigs ==
    {c \in Configs : \/ DOMAIN c = {"preloadAssets"}
                     \/ DOMAIN c = {"cacheDuration"} /\ c["cacheDuration"] = "0"}

\* A queued setConfig(prev => ...) and setPreloadedAssets(prev => ...).
UpdateCall(newConfig) ==
    [op |-> "updateConfig", config |-> newConfig, path |-> ""]
AddCall(path) ==
    [op |-> "addPreloadedAsset", config |-> EmptyConfig, path |-> path]

\* context?.config.preloadAssets
PreloadFlag(provider, cfg) ==
    IF provider /\ "preloadAssets" \in DOMAIN cfg
    THEN cfg["preloadAssets"] ELSE Omitted

PreloadEnabledAlways(flag, paths) == TRUE

\* The negation of the effect's early return:
\* !context?.config.preloadAssets || paths.length === 0
PreloadEnabled(flag, paths) == flag = "true" /\ paths # {}

\* The effect body: one preloadImage per path that is not in the
\* preloadedAssets of this render.  A path whose earlier load is still in
\* flight is tracked by the load started last.
StartLoads(flag, paths, preloaded, loads) ==
    LET started == IF PreloadEnabled(flag, paths)
                   THEN {p \in paths : p \notin preloaded}
                   ELSE {}
    IN  [p \in DOMAIN loads \cup started |->
            IF p \in started THEN "loading" ELSE loads[p]]

UpdaterArgRendered(prev, rendered) == rendered

\* What a functional updater (prev => ...) is called with: the state the
\* updates queued before it produced, not the state of the last render.
UpdaterArg(prev, rendered) == prev

\* The render processes the queued updaters in the order of their calls.
RECURSIVE FlushConfig(_, _, _)
FlushConfig(q, prev, rendered) ==
    IF q = <<>> THEN prev
    ELSE FlushConfig(Tail(q),
                     IF Head(q).op = "updateConfig"
                     THEN MergeConfig(UpdaterArg(prev, rendered),
                                      Head(q).config)
                     ELSE prev,
                     rendered)

RECURSIVE FlushAssets(_, _, _)
FlushAssets(q, prev, rendered) ==
    IF q = <<>> THEN prev
    ELSE FlushAssets(Tail(q),
                     IF Head(q).op = "addPreloadedAsset"
                     THEN SetAdd(UpdaterArg(prev, rendered), Head(q).path)
                     ELSE prev,
                     rendered)

\* The provider has rendered with its config prop and the hook's component
\* has rendered with its paths; no effect has run yet.
InitPreload ==
    /\ uProvider \in BOOLEAN
    /\ config \in (IF uProvider
                    THEN {c \in Configs : DOMAIN c \subseteq {"preloadAssets"}}
                    ELSE {EmptyConfig})
    /\ preloadedAssets = {}
    /\ lastCall = NoCall
    /\ uPaths \in HookPaths
    /\ uPc = "initial"
    /\ uLoads = NoLoads
    /\ queue = <<>>
    /\ applied = NoUpdates
    /\ IdleValidate
    /\ IdleBasePath
    /\ IdleDie
    /\ IdleMounted
    /\ IdlePath
    /\ IdleLoadingState

\* A render of the provider and of the hook's component with the paths
\* newPaths: the queued updates are applied, then the effect runs when it
\* is the first render or a dependency (pathsKey, the flag) changed.
Commit(newPaths, first) ==
    LET cfg == FlushConfig(queue, config, config)
        assets == FlushAssets(queue, preloadedAssets, preloadedAssets)
        depsChanged ==
            \/ newPaths # uPaths
            \/ PreloadFlag(uProvider, cfg) # PreloadFlag(uProvider, config)
    IN  /\ config' = cfg
        /\ preloadedAssets' = assets
        /\ applied' = [paths |-> FlushAssets(queue, {}, {}),
                       config |-> FlushConfig(queue, EmptyConfig, EmptyConfig)]
        /\ queue' = <<>>
        /\ uPaths' = newPaths
        /\ uLoads' = IF first \/ depsChanged
                     THEN StartLoads(PreloadFlag(uProvider, cfg), newPaths,
                                     assets, uLoads)
                     ELSE uLoads
        /\ UNCHANGED <<uProvider, lastCall>>

\* The effect of the first render.
MountPreload ==
    /\ uPc = "initial"
    /\ uPc' = "mounted"
    /\ Commit(uPaths, TRUE)
    /\ UNCHANGED <<varsV, varsP, varsB, varsD, varsA, varsH>>

\* A later render, with the same or another paths argument.
RenderPreload ==
    /\ uPc = "mounted"
    /\ \E newPaths \in HookPaths : Commit(newPaths, FALSE)
    /\ UNCHANGED uPc
    /\ UNCHANGED <<varsV, varsP, varsB, varsD, varsA, varsH>>

\* img.onload of the load of path: preloadImage resolves and the hook calls
\* context.addPreloadedAsset(path).
ImageLoad(path) ==
    /\ path \in DOMAIN uLoads
    /\ uLoads[path] = "loading"
    /\ uLoads' = [uLoads EXCEPT ![path] = "loaded"]
    /\ queue' = Append(queue, AddCall(path))
    /\ UNCHANGED <<uProvider, uPaths, uPc, applied>>
    /\ UNCHANGED varsC
    /\ UNCHANGED <<varsV, varsP, varsB, varsD, varsA, varsH>>

\* img.onerror of the load of path: preloadImage rejects, the catch block
\* warns and nothing else happens.
ImageError(path) ==
    /\ path \in DOMAIN uLoads
    /\ uLoads[path] = "loading"
    /\ uLoads' = [uLoads EXCEPT ![path] = "failed"]
    /\ UNCHANGED <<uProvider, uPaths, uPc, queue, applied>>
    /\ UNCHANGED varsC
    /\ UNCHANGED <<varsV, varsP, varsB, varsD, varsA, varsH>>

\* A consumer of the context calls updateConfig(newConfig).
QueueUpdateConfig ==
    /\ uProvider
    /\ Cardinality({i \in DOMAIN queue : queue[i].op = "updateConfig"})
          < MaxQueue
    /\ \E newConfig \in KeyConfigs :
          queue' = Append(queue, UpdateCall(newConfig))
    /\ UNCHANGED <<uProvider, uPaths, uPc, uLoads, applied>>
    /\ UNCHANGED varsC
    /\ UNCHANGED <<varsV, varsP, varsB, varsD, varsA, varsH>>

NextPreload ==
    \/ MountPreload
    \/ RenderPreload
    \/ \E path \in PreloadPaths : ImageLoad(path)
    \/ \E path \in PreloadPaths : ImageError(path)
    \/ QueueUpdateConfig

SpecPreload == InitPreload /\ [][NextPreload]_vars

---------------------------------------------------------------------------
(* useLoadingState, part_002 lines 26-47 *)

\* Bound on the calls recorded: the hook call and the setter calls after it.
MaxCalls == 4

\* enum LoadingState
LoadingStates == {"loading", "success", "error"}

\* initialState: LoadingState = LoadingState.Loading
InitialOrDefault(initialState) ==
    IF initialState = Omitted THEN "loading" ELSE initialState

SetterTargetSuccessIsLoading(op, arg) ==
    CASE op = "setLoading" -> "loading"
      [] op = "setSuccess" -> "loading"
      [] op = "setError" -> "error"
      [] op = "setState" -> arg

\* The value each setter hands to the useState setter.
SetterTarget(op, arg) ==
    CASE op = "setLoading" -> "loading"
      [] op = "setSuccess" -> "success"
      [] op = "setError" -> "error"
      [] op = "setState" -> arg

isLoading == state = "loading"
isSuccess == state = "success"
isError == state = "error"

\* A setter call: the state becomes its target, whatever it was.
Call(op, arg) ==
    /\ Len(calls) < MaxCalls
    /\ state' = SetterTarget(op, arg)
    /\ calls' = Append(calls, [op |-> op, arg |-> arg])
    /\ UNCHANGED <<varsV, varsP, varsB, varsD, varsA, varsC, varsU>>

\* The first render: useLoadingState() or useLoadingState(initialState).
InitLoadingState ==
    /\ \E initialState \in {Omitted} \cup LoadingStates :
          /\ state = InitialOrDefault(initialState)
          /\ calls = <<[op |-> "useLoadingState", arg |-> initialState]>>
    /\ IdleValidate
    /\ IdleBasePath
    /\ IdleDie
    /\ IdleMounted
    /\ IdlePath
    /\ IdleProvider
    /\ IdlePreload

setLoading == Call("setLoading", Omitted)
setSuccess == Call("setSuccess", Omitted)
setError == Call("setError", Omitted)
setState == \E newState \in LoadingStates : Call("setState", newState)

NextLoadingState ==
    \/ setLoading
    \/ setSuccess
    \/ setError
    \/ setState

SpecLoadingState == InitLoadingState /\ [][NextLoadingState]_vars

---------------------------------------------------------------------------
(* The validation block as a function of the type and face props *)

InitValidate ==
    /\ vType \in TypeInputs
    /\ vFace \in FaceInputs
    /\ vPc = "props"
    /\ vError = Null
    /\ IdleBasePath
    /\ IdleDie
    /\ IdleMounted
    /\ IdlePath
    /\ IdleProvider
    /\ IdleLoadingState
    /\ IdlePreload

\* loadAsset up to the import: the block runs on the props of the render.
Validate ==
    /\ vPc = "props"
    /\ vPc' = "validated"
    /\ vError' = ValidateFace(vType, FaceOrDefault(vFace))
    /\ UNCHANGED <<vType, vFace>>
    /\ UNCHANGED <<varsP, varsB, varsD, varsA, varsC, varsH, varsU>>

NextValidate == Validate

SpecValidate == InitValidate /\ [][NextValidate]_vars

---------------------------------------------------------------------------
(* The base path hook as a function of its three sources *)

InitBasePath ==
    /\ pProp \in {Undefined} \cup {Some(s) : s \in PathInputs}
    /\ pCtx \in {NoProvider, Provider(Undefined)}
                  \cup {Provider(Some(s)) : s \in SourcePaths("c")}
    /\ pEnv \in {Undefined} \cup {Some(s) : s \in SourcePaths("e")}
    /\ pPc = "args"
    /\ pOut = <<>>
    /\ IdleValidate
    /\ IdleDie
    /\ IdleMounted
    /\ IdlePath
    /\ IdleProvider
    /\ IdleLoadingState
    /\ IdlePreload

\* A render calls useEffectiveBasePath(basePath).
ResolveBasePath ==
    /\ pPc = "args"
    /\ pPc' = "resolved"
    /\ pOut' = useEffectiveBasePath(pProp, pCtx, pEnv)
    /\ UNCHANGED <<pProp, pCtx, pEnv>>
    /\ UNCHANGED <<varsV, varsB, varsD, varsA, varsC, varsH, varsU>>

\* A direct call normalizeBasePath(path) of the exported function.
NormalizeCall ==
    /\ pPc = "args"
    /\ pProp.defined
    /\ pPc' = "normalized"
    /\ pOut' = normalizeBasePath(pProp.s)
    /\ UNCHANGED <<pProp, pCtx, pEnv>>
    /\ UNCHANGED <<varsV, varsB, varsD, varsA, varsC, varsH, varsU>>

NextBasePath ==
    \/ ResolveBasePath
    \/ NormalizeCall

SpecBasePath == InitBasePath /\ [][NextBasePath]_vars

---------------------------------------------------------------------------
(* Properties *)

C2_EveryInputChangeResets ==
    [][(phase = "mounted" /\ props' # props) =>
            /\ requestIdRef' = requestIdRef + 1
            /\ \/ loadingState' = "loading" /\ error' = Null
               \/ /\ loadingState' = "error"
                  /\ requests'[requestIdRef'].pc = "threw"]_vars

\* C3: an svg load that ended in Error made a second attempt, for the png
\* locator.
C3_SvgFailureRetriesPng ==
    \A id \in DOMAIN requests :
        (requests[id].format = "svg" /\ requests[id].pc = "failed")
            => requests[id].attempts = 2

C5_ValidationFailsBeforeLoad ==
    \A n \in DOMAIN effects :
        LET p == effects[n].props
            invalid == ValidateFace(p.type, FaceOrDefault(p.face))
        IN  invalid # Null =>
                /\ effects[n].pc = "threw"
                /\ effects[n].path = NoAsset
                /\ effects[n].attempts = 0
                /\ n = Len(effects) =>
                       /\ dLoadingState = "error"
                       /\ dError = invalid
                       /\ DiceComponent = NoAsset

\* A face out of range follows a successful load: the error replaces it.
C5_Witness ==
    /\ Len(effects) >= 2
    /\ effects[Len(effects) - 1].pc = "applied"
    /\ effects[Len(effects)].pc = "threw"
    /\ dProps.type = "d4" /\ dProps.face = Num(50, 0)
    /\ dLoadingState = "error"
    /\ dError.text = "Invalid face for"

\* C6: for d4, d6, d8, d12, d20 and an integer face, the validation block
\* passes iff 1 <= face <= sides; otherwise it throws 'Invalid face for'
\* with the type, the face and the bounds 1 and sides.
C6_NumericFaceRange ==
    LET sides == [t \in {"d4", "d6", "d8", "d12", "d20"} |->
                    CASE t = "d4" -> 4 [] t = "d6" -> 6 [] t = "d8" -> 8
                      [] t = "d12" -> 12 [] t = "d20" -> 20]
    IN  (/\ vPc = "validated"
         /\ vType \in DOMAIN sides
         /\ vFace.kind = "number"
         /\ vFace.frac = 0)
            => /\ vError = Null <=> (1 <= vFace.int /\ vFace.int <= sides[vType])
               /\ vError # Null =>
                      vError = Msg("Invalid face for", vType, vFace, 1,
                                   sides[vType])

\* d12 with face 13 is rejected, citing 1 and 12.
C6_Witness ==
    /\ vPc = "validated"
    /\ vType = "d12"
    /\ vFace = Num(13, 0)
    /\ vError.text = "Invalid face for"
    /\ vError.lo = 1
    /\ vError.hi = 12

\* C7: for d100 and an integer face, the validation block passes iff the
\* face is one of 0, 10, ..., 90; otherwise it throws 'Invalid face for'
\* d100.
C7_D100FaceSteps ==
    (/\ vPc = "validated"
     /\ vType = "d100"
     /\ vFace.kind = "number"
     /\ vFace.frac = 0)
        => /\ vError = Null <=> vFace.int \in {10 * k : k \in 0..9}
           /\ vError # Null =>
                  /\ vError.text = "Invalid face for"
                  /\ vError.type = "d100"

\* d100 with face 45, inside the range but no multiple of 10, is rejected.
C7_Witness ==
    /\ vPc = "validated"
    /\ vType = "d100"
    /\ vFace = Num(45, 0)
    /\ vError.text = "Invalid face for"
    /\ vError.type = "d100"

\* C8: a numeric die with a string face throws 'Numeric dice require a
\* number for the face value'; a narrative die (boost, ..., difficulty) with
\* a number face throws 'Narrative dice require a string for the face
\* value'.
C8_FaceShapeMatchesCategory ==
    vPc = "validated" =>
        /\ (vType \in VALID_NUMERIC_DICE /\ vFace.kind = "string") =>
               vError.text = "Numeric dice require a number for the face value"
        /\ (vType \in NarrativeDieTypes /\ vFace.kind = "number") =>
               vError.text = "Narrative dice require a string for the face value"

\* C9: the validation block throws 'Invalid die type', carrying the type,
\* iff the type is none of the six numeric and six narrative die types.
C9_DieTypeAccepted ==
    vPc = "validated" =>
        /\ vError.text = "Invalid die type"
               <=> vType \notin (VALID_NUMERIC_DICE \cup NarrativeDieTypes)
        /\ vError.text = "Invalid die type" => vError.type = vType

\* C10: the hook returns the normalized first present (provided and not
\* empty) source in the order prop, provider config, environment variable,
\* built-in default.
C10_BasePathPriority ==
    LET present(x) == x.defined /\ x.s # <<>>
        chosen ==
            IF present(pProp) THEN pProp.s
            ELSE IF pCtx.provider /\ present(pCtx.basePath) THEN pCtx.basePath.s
            ELSE IF present(pEnv) THEN pEnv.s
            ELSE DefaultBasePath
    IN  pPc = "resolved" => pOut = normalizeBasePath(chosen)

\* No prop; provider and environment both give a path: the provider's wins.
C10_Witness ==
    /\ pPc = "resolved"
    /\ ~pProp.defined
    /\ pCtx.provider /\ pCtx.basePath.defined /\ pCtx.basePath.s # <<>>
    /\ pEnv.defined /\ pEnv.s # <<>>
    /\ pOut = normalizeBasePath(pCtx.basePath.s)
    /\ pOut # normalizeBasePath(pEnv.s)

\* C11: normalizeBasePath returns a value that ends with no '/'; an input
\* of separators only (the empty string and '/' among them) gives the empty
\* string; every other input that is no absolute URL (http://, https:// or
\* a leading '//') gives a result that begins with exactly one '/'.
C11_NormalizedShape ==
    LET in == pProp.s
        onlySeparators == \A i \in DOMAIN in : in[i] = "/"
        absoluteUrl ==
            \/ Len(in) >= 7 /\ SubSeq(in, 1, 7) = <<"h", "t", "t", "p", ":", "/", "/">>
            \/ Len(in) >= 8
                 /\ SubSeq(in, 1, 8) = <<"h", "t", "t", "p", "s", ":", "/", "/">>
            \/ Len(in) >= 2 /\ in[1] = "/" /\ in[2] = "/"
    IN  pPc = "normalized" =>
            /\ pOut = <<>> \/ pOut[Len(pOut)] # "/"
            /\ onlySeparators => pOut = <<>>
            /\ (~onlySeparators /\ ~absoluteUrl) =>
                   /\ pOut # <<>>
                   /\ pOut[1] = "/"
                   /\ Len(pOut) >= 2 => pOut[2] # "/"

\* The relative path 'a/' becomes '/a'.
C11_Witness ==
    /\ pPc = "normalized"
    /\ pProp.s = <<"a", "/">>
    /\ pOut = <<"/", "a">>

\* C12 as stated: for an absolute URL (http://, https:// or '//', followed
\* by a host) the value returned equals the value supplied.
C12_AbsoluteUrlReturnedAsSupplied ==
    LET in == pProp.s
        host(k) == \E i \in (k + 1)..Len(in) : in[i] # "/"
        absoluteUrl ==
            \/ /\ Len(in) >= 7
               /\ SubSeq(in, 1, 7) = <<"h", "t", "t", "p", ":", "/", "/">>
               /\ host(7)
            \/ /\ Len(in) >= 8
               /\ SubSeq(in, 1, 8) = <<"h", "t", "t", "p", "s", ":", "/", "/">>
               /\ host(8)
            \/ Len(in) >= 2 /\ in[1] = "/" /\ in[2] = "/" /\ host(2)
    IN  (pPc = "normalized" /\ absoluteUrl) => pOut = in

\* C12 amended: for every input whose part before its trailing '/'s is an
\* absolute URL, the value returned is that part: the trailing separators
\* are removed, no leading separator is inserted, and an absolute URL that
\* ends with no '/' is returned as supplied.
C12_AbsoluteUrlKeptUpToTrailingSeparators ==
    LET in == pProp.s
        last == IF \E i \in DOMAIN in : in[i] # "/"
                THEN CHOOSE i \in DOMAIN in :
                        in[i] # "/" /\ \A j \in (i + 1)..Len(in) : in[j] = "/"
                ELSE 0
        core == SubSeq(in, 1, last)
        absoluteUrl ==
            \/ Len(core) >= 7
                 /\ SubSeq(core, 1, 7) = <<"h", "t", "t", "p", ":", "/", "/">>
            \/ Len(core) >= 8
                 /\ SubSeq(core, 1, 8) = <<"h", "t", "t", "p", "s", ":", "/", "/">>
            \/ Len(core) >= 2 /\ core[1] = "/" /\ core[2] = "/"
    IN  (pPc = "normalized" /\ absoluteUrl) => pOut = core

\* 'https://a/' is returned as 'https://a'.
C12_Witness ==
    /\ pPc = "normalized"
    /\ pProp.s = <<"h", "t", "t", "p", "s", ":", "/", "/", "a", "/">>
    /\ pOut = <<"h", "t", "t", "p", "s", ":", "/", "/", "a">>

\* C13: for a validated numeric die with a well-formed theme the asset
\* path is .../numeric/{theme}/{DieTypeName}-{face, two digits at least}-
\* {Script}-{Style}.{format}: the script before the style ('white-arabic'
\* gives '-Arabic-White'), and DieTypeName D6, D8, D12, D20, D100, or D4,
\* D4Apex, D4Base by variant (D4 when the variant is omitted).
C13_NumericAssetPath ==
    LET p == aProps
        face == IF p.face.kind = "undefined" THEN Num(1, 0) ELSE p.face
        theme == IF p.theme.defined THEN p.theme.s ELSE WhiteArabic
        name ==
            CASE p.type = "d4" /\ p.variant = "apex" ->
                    <<"D", "4", "A", "p", "e", "x">>
              [] p.type = "d4" /\ p.variant = "base" ->
                    <<"D", "4", "B", "a", "s", "e">>
              [] p.type = "d4" /\ p.variant \notin {"apex", "base"} ->
                    <<"D", "4">>
              [] p.type = "d6" -> <<"D", "6">>
              [] p.type = "d8" -> <<"D", "8">>
              [] p.type = "d12" -> <<"D", "1", "2">>
              [] p.type = "d20" -> <<"D", "2", "0">>
              [] p.type = "d100" -> <<"D", "1", "0", "0">>
        padded ==
            CASE face.int = 1 -> <<"0", "1">>
              [] face.int = 7 -> <<"0", "7">>
              [] face.int = 20 -> <<"2", "0">>
              [] face.int = 90 -> <<"9", "0">>
        style == IF theme = WhiteArabic THEN <<"W", "h", "i", "t", "e">>
                 ELSE <<"B", "l", "a", "c", "k">>
        script == IF theme = WhiteArabic
                  THEN <<"A", "r", "a", "b", "i", "c">>
                  ELSE <<"R", "o", "m", "a", "n">>
    IN  (/\ aPc = "computed"
         /\ p.type \in VALID_NUMERIC_DICE
         /\ ValidateFace(p.type, face) = Null
         /\ theme \in {WhiteArabic, BlackRoman})
            => /\ aThrown = Null
               /\ aPath.subdir = theme \o <<"/">>
               /\ aPath.name = name
               /\ aPath.face = padded
               /\ aPath.first = script
               /\ aPath.second = style
               /\ aPath.format = p.format

\* C14: a narrative die (boost, ..., difficulty) with a string face passes
\* validation and its asset path is .../narrative/{Label}/{Label}-{face}.
\* {format}, Label the capitalised type and the face verbatim.
C14_NarrativeAssetPath ==
    LET p == aProps
        label ==
            CASE p.type = "boost" -> <<"B", "o", "o", "s", "t">>
              [] p.type = "proficiency" ->
                    <<"P", "r", "o", "f", "i", "c", "i", "e", "n", "c", "y">>
              [] p.type = "ability" -> <<"A", "b", "i", "l", "i", "t", "y">>
              [] p.type = "setback" -> <<"S", "e", "t", "b", "a", "c", "k">>
              [] p.type = "challenge" ->
                    <<"C", "h", "a", "l", "l", "e", "n", "g", "e">>
              [] p.type = "difficulty" ->
                    <<"D", "i", "f", "f", "i", "c", "u", "l", "t", "y">>
    IN  (/\ aPc = "computed"
         /\ p.type \in NarrativeDieTypes
         /\ p.face.kind = "string")
            => /\ aThrown = Null
               /\ aPath.subdir = label \o <<"/">>
               /\ aPath.name = label
               /\ aPath.faceStr = p.face.str
               /\ aPath.format = p.format

\* C15: for a valid numeric die and every theme, loadAsset throws nothing
\* and the path carries a style and a script, both non-empty.
C15_ThemeParsingNeverThrows ==
    LET p == aProps
        face == IF p.face.kind = "undefined" THEN Num(1, 0) ELSE p.face
    IN  (/\ aPc = "computed"
         /\ p.type \in VALID_NUMERIC_DICE
         /\ ValidateFace(p.type, face) = Null)
            => /\ aThrown = Null
               /\ aPath.first # <<>>
               /\ aPath.second # <<>>

\* C16: in every state the component returns exactly one of the status
\* placeholder, the alert carrying the error message, and the die image: it
\* never returns null, the alert always has a message, and the image always
\* has the loaded asset.
C16_RendersOneOfThree ==
    /\ RenderMounted.element \in {"status", "alert", "image"}
    /\ RenderMounted.element = "alert" => RenderMounted.message # Null
    /\ RenderMounted.element = "image" =>
           /\ RenderMounted.component # NoAsset
           /\ RenderMounted.component = effects[Len(effects)].path
    /\ Render.element \in {"status", "alert", "svg", "img"}
    /\ Render.element = "alert" => Render.message # Null

\* The three outputs in one life: a load succeeded and its image was shown,
\* then an invalid face put the alert in its place.
C16_Witness ==
    /\ Len(effects) >= 2
    /\ effects[Len(effects) - 1].pc = "applied"
    /\ RenderMounted.element = "alert"
    /\ RenderMounted.message.text = "Invalid face for"

\* C17: the preloaded-asset set only grows: no step removes a path, a call
\* addPreloadedAsset(path) leaves exactly the former paths and path in the
\* set, and a call for a path already present leaves the set as it was.
C17_PreloadedAssetsOnlyGrow ==
    [][/\ preloadedAssets \subseteq preloadedAssets'
       /\ lastCall'.op = "addPreloadedAsset" =>
              /\ lastCall'.path \in preloadedAssets'
              /\ preloadedAssets' \ preloadedAssets \subseteq {lastCall'.path}
              /\ lastCall'.path \in preloadedAssets =>
                     preloadedAssets' = preloadedAssets]_vars

\* Two paths were added, a config update came between them, and both are in
\* the set.
C17_Witness ==
    /\ lastCall.op = "addPreloadedAsset"
    /\ Cardinality(preloadedAssets) = 2
    /\ "cacheDuration" \in DOMAIN config

\* C18: config changes only by an updateConfig call, which gives every key
\* of the update its new value and leaves every other key as it was (set or
\* not set); the call leaves the preloaded-asset set as it was.
C18_UpdateConfigMerges ==
    [][/\ config' # config => lastCall'.op = "updateConfig"
       /\ lastCall'.op = "updateConfig" =>
              /\ \A k \in DOMAIN lastCall'.config :
                     k \in DOMAIN config' /\ config'[k] = lastCall'.config[k]
              /\ \A k \in ConfigKeys \ DOMAIN lastCall'.config :
                     /\ k \in DOMAIN config' <=> k \in DOMAIN config
                     /\ k \in DOMAIN config => config'[k] = config[k]
              /\ preloadedAssets' = preloadedAssets]_vars

\* An update of cacheDuration alone: basePath keeps its value and the
\* preloaded assets stay.
C18_Witness ==
    /\ lastCall.op = "updateConfig"
    /\ DOMAIN lastCall.config = {"cacheDuration"}
    /\ "basePath" \in DOMAIN config
    /\ config["cacheDuration"] = lastCall.config["cacheDuration"]
    /\ preloadedAssets # {}

\* C19: useLoadingState starts in Loading, or in the initial state given;
\* after any setter calls the state is the target of the last one; exactly
\* one of isLoading, isSuccess, isError is true, the one of the state.
C19_StateIsLastTarget ==
    LET last == calls[Len(calls)]
        expected ==
            CASE last.op = "useLoadingState" /\ last.arg = "undefined" -> "loading"
              [] last.op = "useLoadingState" /\ last.arg # "undefined" -> last.arg
              [] last.op = "setLoading" -> "loading"
              [] last.op = "setSuccess" -> "success"
              [] last.op = "setError" -> "error"
              [] last.op = "setState" -> last.arg
    IN  calls # <<>> =>
            /\ state = expected
            /\ isLoading <=> state = "loading"
            /\ isSuccess <=> state = "success"
            /\ isError <=> state = "error"
            /\ Cardinality({f \in {"isLoading", "isSuccess", "isError"} :
                    \/ f = "isLoading" /\ isLoading
                    \/ f = "isSuccess" /\ isSuccess
                    \/ f = "isError" /\ isError}) = 1

\* From the default Loading to Success, to Error and back to Success.
C19_Witness ==
    /\ Len(calls) = 4
    /\ calls[1].arg = "undefined"
    /\ calls[2].op = "setSuccess"
    /\ calls[3].op = "setError"
    /\ calls[4].op = "setSuccess"
    /\ isSuccess /\ ~isError /\ ~isLoading

C21_LoadingLeftOnlyByOwnSettlementOrInputChange ==
    [][(loadingState = "loading" /\ loadingState' # "loading") =>
            \/ /\ props' # props
               /\ requestIdRef' = requestIdRef + 1
            \/ /\ requestIdRef' = requestIdRef
               /\ props' = props
               /\ requests[requestIdRef].pc \in {"import", "fetch", "text"}
               /\ requests'[requestIdRef].pc \in {"applied", "failed"}
               /\ \A id \in DOMAIN requests :
                     id # requestIdRef => requests'[id] = requests[id]]_vars

\* The current load ended the loading state by succeeding while the load of
\* an earlier request never settled.
C21_Witness ==
    /\ loadingState = "success"
    /\ requestIdRef >= 2
    /\ requests[requestIdRef].pc = "applied"
    /\ \E id \in DOMAIN requests :
          id < requestIdRef /\ requests[id].pc = "import"

C27_NoStateUpdateAfterUnmount ==
    [][phase = "unmounted" => display' = display]_vars

\* C28: error is non-null exactly in the 'error' state, it is set in the
\* step that enters 'error', and in 'error' the stored content is empty.
C28_ErrorExactlyInErrorState ==
    /\ [](error # Null <=> loadingState = "error")
    /\ [](loadingState = "error" => svgContent = EmptyContent)
    /\ [][(loadingState # "error" /\ loadingState' = "error") =>
              (error = Null /\ error' # Null)]_vars

\* A load failed after an earlier one had succeeded: the error is shown and
\* the earlier content is gone.
C28_Witness ==
    /\ loadingState = "error"
    /\ error # Null
    /\ svgContent = EmptyContent
    /\ requests[requestIdRef].pc = "failed"
    /\ \E id \in DOMAIN requests :
          id < requestIdRef /\ requests[id].pc = "applied"

\* C24: a numeric die accepts whole numbers only: a number face with a
\* fractional part (2.5 on a d6) makes the validation block throw.
C24_NonIntegerFaceRejected ==
    (/\ vPc = "validated"
     /\ vType \in VALID_NUMERIC_DICE
     /\ vFace.kind = "number"
     /\ vFace.frac # 0) => vError # Null

\* C29: a source that is the empty string counts as not provided, in the
\* order prop, provider config, environment variable, default; the hook
\* returns the empty string only when the source it chose is a non-empty
\* value made of '/' only.
C29_EmptySourceIsNotProvided ==
    LET blank(x) == ~x.defined \/ x.s = <<>>
        ctxBase == IF pCtx.provider THEN pCtx.basePath ELSE Undefined
        separatorsOnly(s) == s # <<>> /\ \A i \in DOMAIN s : s[i] = "/"
    IN  pPc = "resolved" =>
            /\ (blank(pProp) /\ ~blank(ctxBase)) =>
                   pOut = normalizeBasePath(ctxBase.s)
            /\ (blank(pProp) /\ blank(ctxBase) /\ ~blank(pEnv)) =>
                   pOut = normalizeBasePath(pEnv.s)
            /\ (blank(pProp) /\ blank(ctxBase) /\ blank(pEnv)) =>
                   pOut = normalizeBasePath(DefaultBasePath)
            /\ pOut = <<>> =>
                   \/ ~blank(pProp) /\ separatorsOnly(pProp.s)
                   \/ blank(pProp) /\ ~blank(ctxBase)
                        /\ separatorsOnly(ctxBase.s)
                   \/ blank(pProp) /\ blank(ctxBase) /\ ~blank(pEnv)
                        /\ separatorsOnly(pEnv.s)

\* Prop, provider config and environment variable are all the empty
\* string: the default is returned.
C29_Witness ==
    /\ pPc = "resolved"
    /\ pProp = Some(<<>>)
    /\ pCtx = Provider(Some(<<>>))
    /\ pEnv = Some(<<>>)
    /\ pOut = normalizeBasePath(DefaultBasePath)
    /\ pOut # <<>>

\* C30: face defaults to 1 when omitted: a narrative die (boost, ...)
\* without a face throws 'Narrative dice require a string for the face
\* value'; a numeric die other than d100 without a face is valid; d100
\* without a face throws 'Invalid face for d100'.
C30_OmittedFaceDefaultsToOne ==
    (vPc = "validated" /\ vFace = UndefinedFace) =>
        /\ vType \in NarrativeDieTypes =>
               vError.text = "Narrative dice require a string for the face value"
        /\ vType \in (VALID_NUMERIC_DICE \ {"d100"}) => vError = Null
        /\ vType = "d100" =>
               (vError.text = "Invalid face for" /\ vError.type = "d100")

\* C23: when every started load settles, the component, unless it is
\* unmounted, ends for good in 'success' or 'error' for the inputs of the
\* last request: that request is settled, made at most two load attempts,
\* and in 'success' the content is the asset of the current props.
C23_EventuallySuccessOrError ==
    <>[](phase # "unmounted" =>
            /\ phase = "mounted"
            /\ loadingState \in {"success", "error"}
            /\ requests[requestIdRef].pc \in {"applied", "failed", "threw"}
            /\ requests[requestIdRef].attempts <= 2
            /\ requests[requestIdRef].format = props.format
            /\ loadingState = "success" =>
                   svgContent.asset = getAssetPath(props))

\* The svg load of the last of several requests was applied and every
\* earlier request has settled.
C23_Witness ==
    /\ phase = "mounted"
    /\ requestIdRef >= 2
    /\ loadingState = "success"
    /\ requests[requestIdRef].pc = "applied"
    /\ requests[requestIdRef].format = "svg"
    /\ \A id \in DOMAIN requests :
          requests[id].pc \notin {"import", "fetch", "text"}

\* C25: a preload starts only inside a provider whose preloadAssets flag is
\* on, for a path of the list that is not in the preloaded set of that
\* render; the hook queues addPreloadedAsset(path) only in the step in which
\* the image of path loaded, and the set gains no path without such a call;
\* a failed load changes neither the set nor the config nor the queue nor
\* any other path's load.
C25_PreloadOnlyWhenEnabledAndMissing ==
    [][LET status(loads, p) == IF p \in DOMAIN loads THEN loads[p] ELSE "idle"
           adds(q, p) == Cardinality({i \in DOMAIN q : q[i] = AddCall(p)})
       IN  \A p \in PreloadPaths :
              /\ (status(uLoads', p) = "loading"
                    /\ status(uLoads, p) # "loading") =>
                     /\ uProvider
                     /\ "preloadAssets" \in DOMAIN config'
                     /\ config'["preloadAssets"] = "true"
                     /\ p \in uPaths'
                     /\ p \notin preloadedAssets'
              /\ adds(queue', p) > adds(queue, p) =>
                     /\ status(uLoads, p) = "loading"
                     /\ status(uLoads', p) = "loaded"
              /\ (p \in preloadedAssets' /\ p \notin preloadedAssets) =>
                     adds(queue, p) > 0
              /\ (status(uLoads, p) = "loading"
                    /\ status(uLoads', p) = "failed") =>
                     /\ UNCHANGED <<config, preloadedAssets, queue>>
                     /\ \A other \in PreloadPaths \ {p} :
                           status(uLoads', other) = status(uLoads, other)]_vars

\* Of two preloads started together one failed and the other loaded and,
\* after the next render, is in the set.
C25_Witness ==
    /\ uPaths = {"/dice/d6.svg", "/dice/d8.svg"}
    /\ DOMAIN uLoads = uPaths
    /\ uLoads["/dice/d6.svg"] = "failed"
    /\ uLoads["/dice/d8.svg"] = "loaded"
    /\ preloadedAssets = {"/dice/d8.svg"}

\* C26: the render that processes the queued calls loses none of them:
\* every path of a queued addPreloadedAsset is in the set, no path leaves
\* the set, every key of a queued updateConfig is in the config with the
\* value of the last queued call for that key, and the keys no call names
\* keep their value.
C26_QueuedUpdatesAllApplied ==
    [][LET updates == {i \in DOMAIN queue : queue[i].op = "updateConfig"}
           updated == UNION {DOMAIN queue[i].config : i \in updates}
       IN  (queue # <<>> /\ queue' = <<>>) =>
              /\ preloadedAssets \subseteq preloadedAssets'
              /\ \A i \in DOMAIN queue :
                    queue[i].op = "addPreloadedAsset" =>
                        queue[i].path \in preloadedAssets'
              /\ \A i \in updates : \A k \in DOMAIN queue[i].config :
                    /\ k \in DOMAIN config'
                    /\ (\A j \in updates :
                           j > i => k \notin DOMAIN queue[j].config)
                          => config'[k] = queue[i].config[k]
              /\ \A k \in DOMAIN config \ updated :
                    k \in DOMAIN config' /\ config'[k] = config[k]
              /\ DOMAIN config' = DOMAIN config \cup updated]_vars

\* One render processed two addPreloadedAsset calls for different paths and
\* two updateConfig calls for different keys, and all four took effect.
C26_Witness ==
    /\ queue = <<>>
    /\ Cardinality(applied.paths) >= 2
    /\ applied.paths \subseteq preloadedAssets
    /\ Cardinality(DOMAIN applied.config) >= 2
    /\ \A k \in DOMAIN applied.config :
          k \in DOMAIN config /\ config[k] = applied.config[k]

===========================================================================
